---- MODULE Spec2Model ----
(***************************************************************************)
(* Gene Network Dashboard (src/gene_network_dashboard.py): a Streamlit      *)
(* script.  Every user gesture reruns the whole script top to bottom; what  *)
(* survives between runs is the widget state of the session (the gene text  *)
(* area, the score sliders) and the st.cache_data cache of                  *)
(* query_string_edges.  Everything else (the graph, the tables, the two     *)
(* downloads) is rebuilt by each run.                                       *)
(*                                                                         *)
(* Texts typed by the user are sequences of one-character strings, so that  *)
(* split and strip work on characters.  Names and scores that come back     *)
(* from the STRING API are opaque strings.                                  *)
(***************************************************************************)
EXTENDS Integers, Sequences, FiniteSets, TLC

VARIABLES
    genes_input,   \* session: text of the sidebar text area (line 24)
    run_networks,  \* value of the run button in the latest script run (line 26)
    cache,         \* st.cache_data of query_string_edges: gene list -> result
    net_log,       \* every requests.get issued so far, in order, with the
                   \* gene list it was made for and what came back
    slider_state,  \* session: slider key -> value, for the sliders touched
    crashed,       \* the latest run ended in an uncaught exception
    alerts,        \* st.error / st.info messages of the latest run
    sections,      \* subheaders rendered by the latest run, in order
    G,             \* the networkx graph drawn by the latest run
    string_csv,    \* rows of the STRING edge download of the latest run
    df_eval,       \* the evaluation table displayed by the latest run
    eval_csv       \* rows of the evaluation download of the latest run

vars == <<genes_input, run_networks, cache, net_log, slider_state, crashed,
          alerts, sections, G, string_csv, df_eval, eval_csv>>

(***************************************************************************)
(* Bounds of the model.                                                    *)
(***************************************************************************)
MaxInputLen == 2   \* longest gene text typed, in characters
MaxRecords == 2    \* most records in one API response
MaxCalls == 2      \* most network calls of one session (SpecCache)
MaxEdited == 2     \* most sliders touched in one session

Alphabet == {"A", " ", ","}

(***************************************************************************)
(* Sidebar: the gene text and its parsing (lines 23-25).                   *)
(***************************************************************************)
default_genes ==
    <<"F","S","H","R",","," ","L","H","C","G","R",","," ",
      "C","Y","P","1","9","A","1",","," ","E","S","R","1",","," ",
      "I","N","H","B","A",","," ","G","N","R","H","R">>

Whitespace == {" ", "\t", "\n", "\r"}

\* str.split(","): the pieces between commas; always at least one piece.
RECURSIVE Split(_)
Split(s) ==
    IF \A i \in 1..Len(s) : s[i] # ","
    THEN <<s>>
    ELSE LET i == CHOOSE j \in 1..Len(s) :
                      s[j] = "," /\ \A k \in 1..(j-1) : s[k] # ","
         IN  <<SubSeq(s, 1, i-1)>> \o Split(SubSeq(s, i+1, Len(s)))

\* str.strip(): leading and trailing whitespace removed.
RECURSIVE Strip(_)
Strip(s) ==
    IF s = <<>> THEN s
    ELSE IF s[1] \in Whitespace THEN Strip(Tail(s))
    ELSE IF s[Len(s)] \in Whitespace THEN Strip(SubSeq(s, 1, Len(s)-1))
    ELSE s

\* A plausible slip: the comprehension without its "if g.strip()" filter.
RECURSIVE StripAll(_)
StripAll(pieces) ==
    IF pieces = <<>> THEN <<>>
    ELSE <<Strip(Head(pieces))>> \o StripAll(Tail(pieces))

\* [g.strip() for g in pieces if g.strip()]
RECURSIVE StripNonEmpty(_)
StripNonEmpty(pieces) ==
    IF pieces = <<>> THEN <<>>
    ELSE IF Strip(Head(pieces)) # <<>>
         THEN <<Strip(Head(pieces))>> \o StripNonEmpty(Tail(pieces))
         ELSE StripNonEmpty(Tail(pieces))

ParseGenes(text) == StripNonEmpty(Split(text))

\* "\n".join(genes)
RECURSIVE JoinLines(_)
JoinLines(genes) ==
    IF genes = <<>> THEN <<>>
    ELSE IF Len(genes) = 1 THEN genes[1]
    ELSE genes[1] \o <<"\n">> \o JoinLines(Tail(genes))

(***************************************************************************)
(* Evaluation table (lines 134-168).  The labels of the criteria are the   *)
(* source's without their leading emoji.                                   *)
(***************************************************************************)
criteria ==
    <<"Biological Context", "Network Connectivity", "Clinical Utility",
      "AI-readiness", "Interoperability", "Clinical Explainability",
      "Visual Insight">>

tools ==
    <<"GeneMANIA", "STRING-db", "GAINT", "Cytoscape+ClueGO", "NetworkX",
      "Pathway Commons">>

default_scores ==
    ("GeneMANIA" :> <<5, 5, 2, 3, 5, 3, 5>>) @@
    ("STRING-db" :> <<4, 5, 3, 4, 5, 2, 5>>) @@
    ("GAINT" :> <<5, 5, 3, 4, 5, 2, 5>>) @@
    ("Cytoscape+ClueGO" :> <<4, 4, 2, 5, 5, 3, 5>>) @@
    ("NetworkX" :> <<1, 3, 1, 5, 5, 1, 2>>) @@
    ("Pathway Commons" :> <<5, 5, 2, 5, 5, 2, 4>>)

min_value == 1
max_value == 5

Range(s) == {s[i] : i \in 1..Len(s)}

\* pd.DataFrame(default_scores, index=criteria.keys()).T : rows are tools.
NewEval ==
    [t \in Range(tools) |->
        [c \in Range(criteria) |->
            default_scores[t][CHOOSE i \in 1..Len(criteria) : criteria[i] = c]]]

\* key=f"{tool}-{crit}"
SliderKey(tool, crit) == tool \o "-" \o crit

\* A plausible slip: a slider that starts from its value argument in every run.
SliderUnkeyed(state, key, value) == value

\* st.slider(..., value=v, key=k): the session's value for the key once the
\* slider has been touched, the value argument before.
Slider(state, key, value) == IF key \in DOMAIN state THEN state[key] ELSE value

\* df[list(criteria.keys())].sum(axis=1), for one row
RECURSIVE RowSum(_, _)
RowSum(row, i) ==
    IF i > Len(criteria) THEN 0 ELSE row[criteria[i]] + RowSum(row, i + 1)

\* The loops of lines 155-165 write every cell once, with the value of its
\* own slider, whose value argument is the cell as line 153 built it.
AdjustScores(df, state) ==
    [t \in Range(tools) |->
        [c \in Range(criteria) |-> Slider(state, SliderKey(t, c), df[t][c])]]

\* A plausible slip: the total taken before the sliders are applied.
EvalTableStaleTotal(state) ==
    LET df == AdjustScores(NewEval, state)
    IN  [cell |-> df, total |-> [t \in Range(tools) |-> RowSum(NewEval[t], 1)]]

\* The table after line 166: the adjusted cells and the "Total Score" column.
EvalTable(state) ==
    LET df == AdjustScores(NewEval, state)
    IN  [cell |-> df, total |-> [t \in Range(tools) |-> RowSum(df[t], 1)]]

Digit == <<"0", "1", "2", "3", "4", "5", "6", "7", "8", "9">>

\* str(n) of a non-negative integer
RECURSIVE ToStr(_)
ToStr(n) ==
    IF n < 10 THEN Digit[n + 1]
    ELSE ToStr(n \div 10) \o Digit[(n % 10) + 1]

\* A plausible slip: the export written from the table of line 153.
EvalCsvDefaults(table) ==
    <<(<<"">> \o criteria \o <<"Total Score">>)>> \o
    [i \in 1..Len(tools) |->
        <<tools[i]>> \o
        [j \in 1..Len(criteria) |-> ToStr(NewEval[tools[i]][criteria[j]])] \o
        <<ToStr(RowSum(NewEval[tools[i]], 1))>>]

\* df_eval.to_csv(): a header row (the index column is unnamed), then one
\* row per tool: the tool, its criteria in column order, its total.
EvalCsv(table) ==
    <<(<<"">> \o criteria \o <<"Total Score">>)>> \o
    [i \in 1..Len(tools) |->
        <<tools[i]>> \o
        [j \in 1..Len(criteria) |-> ToStr(table.cell[tools[i]][criteria[j]])] \o
        <<ToStr(table.total[tools[i]])>>]

(***************************************************************************)
(* The STRING API (lines 29-38).  What requests.get and r.json() can do is  *)
(* the environment's choice: the call raises (timeout, connection error),  *)
(* or a response arrives with some status and a body that is not JSON, a    *)
(* JSON array of records, or a JSON object (an error document).             *)
(***************************************************************************)
species == 9606

Fields == {"preferredName_A", "preferredName_B", "score"}
Names == {"X", "Y"}
Scores == {"0.5", "0.7"}

\* One record of a response: any of the three fields may be absent.
Records ==
    {r \in UNION {[D -> Names \cup Scores] : D \in SUBSET Fields} :
        \A f \in DOMAIN r : r[f] \in (IF f = "score" THEN Scores ELSE Names)}

RECURSIVE SeqsUpTo(_, _)
SeqsUpTo(S, n) ==
    IF n = 0 THEN {<<>>}
    ELSE LET shorter == SeqsUpTo(S, n - 1)
         IN  shorter \cup {Append(q, x) : q \in shorter, x \in S}

Raised(k) == [kind |-> k, status |-> 0, json |-> "invalid", items |-> <<>>]
Answered(st, js, items) ==
    [kind |-> "Response", status |-> st, json |-> js, items |-> items]

\* The value query_string_edges returns on an exception (line 38).
EmptyList == [json |-> "array", items |-> <<>>]

\* The body of query_string_edges (lines 31-38): one GET carrying all genes;
\* an exception of requests.get or of r.json() is reported with st.error and
\* [] is returned; any body that parses as JSON is returned as it is, whatever
\* the status of the response (there is no raise_for_status).
query_string_edges(genes, outcome) ==
    [value |-> IF outcome.kind = "Response" /\ outcome.json # "invalid"
               THEN [json |-> outcome.json, items |-> outcome.items]
               ELSE EmptyList,
     error |-> ~(outcome.kind = "Response" /\ outcome.json # "invalid"),
     request |-> [identifiers |-> JoinLines(genes), species |-> species]]

\* A plausible slip: the argument named _genes, which st.cache_data does not
\* hash, so that every gene list shares one entry.
CacheKeyUnhashed(genes) == <<>>

\* @st.cache_data hashes the argument: the list of genes, in its order.
CacheKey(genes) == genes

\* @st.cache_data (line 29): the body runs on a miss only; the entry keeps the
\* returned value and the st.error the body showed, which a hit replays.
CachedQuery(genes, outcome) ==
    LET key == CacheKey(genes)
    IN  IF key \in DOMAIN cache
        THEN [entry |-> cache[key], cache |-> cache, calls |-> <<>>]
        ELSE LET r == query_string_edges(genes, outcome)
                 e == [value |-> r.value, error |-> r.error]
             IN  [entry |-> e, cache |-> (key :> e) @@ cache,
                  calls |-> <<[genes |-> genes, request |-> r.request,
                              outcome |-> outcome]>>]

(***************************************************************************)
(* pandas and networkx, as far as the script uses them.                    *)
(***************************************************************************)
NaN == [isna |-> TRUE, val |-> ""]
Cell(v) == [isna |-> FALSE, val |-> v]

\* pd.DataFrame(list of dicts): the columns are the keys of all the records;
\* a record without a key gets NaN in that column.
DataFrame(items) ==
    LET cols == UNION {DOMAIN items[i] : i \in 1..Len(items)}
    IN  [columns |-> cols,
         rows |-> [i \in 1..Len(items) |->
                     [c \in cols |->
                         IF c \in DOMAIN items[i] THEN Cell(items[i][c]) ELSE NaN]]]

\* str(value) of a cell: str(float('nan')) is 'nan'.
Str(cell) == IF cell.isna THEN "nan" ELSE cell.val

\* to_csv writes a missing value as the empty field.
CsvField(cell) == IF cell.isna THEN "" ELSE cell.val

NoGraph == [drawn |-> FALSE, node |-> {}, adj |-> <<>>]

\* A plausible slip: nx.DiGraph, an edge kept from u to v only.
add_edge_directed(g, u, v) ==
    LET nodes == g.node \cup {u, v}
    IN  [drawn |-> TRUE, node |-> nodes,
         adj |-> [n \in nodes |->
                    (IF n \in g.node THEN g.adj[n] ELSE {}) \cup
                    (IF n = u THEN {v} ELSE {})]]

\* nx.Graph.add_edge(u, v): both nodes are added, each becomes the other's
\* neighbour; adding an edge again changes nothing.
add_edge(g, u, v) ==
    LET nodes == g.node \cup {u, v}
    IN  [drawn |-> TRUE, node |-> nodes,
         adj |-> [n \in nodes |->
                    (IF n \in g.node THEN g.adj[n] ELSE {}) \cup
                    (IF n = u THEN {v} ELSE {}) \cup
                    (IF n = v THEN {u} ELSE {})]]

\* G.edges of an undirected graph: unordered pairs (a self-loop is {u}).
Edges(g) == UNION {{{u, v} : v \in g.adj[u]} : u \in g.node}

\* The loop of lines 46-47 over the rows from row i on.
RECURSIVE AddRows(_, _, _, _, _)
AddRows(g, rows, source_col, target_col, i) ==
    IF i > Len(rows) THEN g
    ELSE AddRows(add_edge(g, Str(rows[i][source_col]), Str(rows[i][target_col])),
                 rows, source_col, target_col, i + 1)

\* draw_networkx_graph (lines 41-52): nothing is drawn for an empty frame.
draw_networkx_graph(edge_df, source_col, target_col) ==
    IF edge_df.rows = <<>> \/ edge_df.columns = {}
    THEN [graph |-> NoGraph, info |-> <<"No network edges to display.">>]
    ELSE [graph |-> AddRows([NoGraph EXCEPT !.drawn = TRUE], edge_df.rows,
                            source_col, target_col, 1),
          info |-> <<>>]

\* A plausible slip: duplicate pairs dropped before the export.
EdgeCsvDeduplicated(se_df) ==
    LET keep == {i \in 1..Len(se_df.rows) :
                    \A j \in 1..(i-1) :
                        {Str(se_df.rows[j]["preferredName_A"]),
                         Str(se_df.rows[j]["preferredName_B"])} #
                        {Str(se_df.rows[i]["preferredName_A"]),
                         Str(se_df.rows[i]["preferredName_B"])}}
        kept == SelectSeq([i \in 1..Len(se_df.rows) |-> i], LAMBDA i : i \in keep)
    IN  <<(<<"preferredName_A", "preferredName_B">>)>> \o
        [n \in 1..Len(kept) |->
            <<CsvField(se_df.rows[kept[n]]["preferredName_A"]),
              CsvField(se_df.rows[kept[n]]["preferredName_B"])>>]

\* se_df[["preferredName_A", "preferredName_B"]].to_csv(index=False), line 86:
\* the header, then one row per row of the frame, in its order.
EdgeCsv(se_df) ==
    <<(<<"preferredName_A", "preferredName_B">>)>> \o
    [i \in 1..Len(se_df.rows) |->
        <<CsvField(se_df.rows[i]["preferredName_A"]),
          CsvField(se_df.rows[i]["preferredName_B"])>>]


(***************************************************************************)
(* One run of the script (lines 9-168).                                    *)
(***************************************************************************)
NoTable == [cell |-> <<>>, total |-> <<>>]

\* The STRING-db section, lines 76-88, on the value the cached query gave.
\* pd.DataFrame of an error object (a dict of scalars) raises ValueError;
\* se_df['preferredName_A'], se_df['preferredName_B'] (line 79) and
\* se_df[[..., "score"]] (line 81) raise KeyError when no record of the
\* response has the field.  None of these is caught.
StringSection(entry) ==
    LET shown == IF entry.error THEN <<"STRING-db API error">> ELSE <<>>
        value == entry.value
        se_df == DataFrame(value.items)
        drawn == draw_networkx_graph(se_df, "preferredName_A", "preferredName_B")
    IN  IF value.json = "object"
        THEN [crashed |-> TRUE, alerts |-> shown, graph |-> NoGraph, csv |-> <<>>]
        ELSE IF value.items = <<>>
        THEN [crashed |-> FALSE,
              alerts |-> shown \o <<"No STRING network returned for given genes.">>,
              graph |-> NoGraph, csv |-> <<>>]
        ELSE IF ~(Fields \subseteq se_df.columns)
        THEN [crashed |-> TRUE, alerts |-> shown, graph |-> NoGraph, csv |-> <<>>]
        ELSE [crashed |-> FALSE, alerts |-> shown \o drawn.info,
              graph |-> drawn.graph, csv |-> EdgeCsv(se_df)]

\* One run of the whole script with the given widget values; the outcome is
\* what the network does if the run gets to call it.  Lines 55-129 run only
\* when the button was pressed and the gene list is not empty; an uncaught
\* exception in them ends the run before the evaluation table (line 130 on).
\* The session keeps the values of its widgets across a run that ended early.
Run(text, pressed, sliders, outcome) ==
    LET genes == ParseGenes(text)
        network == pressed /\ genes # <<>>
    IN  /\ genes_input' = text
        /\ run_networks' = pressed
        /\ slider_state' = sliders
        /\ IF network
           THEN LET q == CachedQuery(genes, outcome)
                IN  /\ cache' = q.cache
                    /\ net_log' = net_log \o q.calls
                    /\ LET str == StringSection(cache'[CacheKey(genes)])
                       IN  /\ crashed' = str.crashed
                           /\ alerts' = str.alerts
                           /\ G' = str.graph
                           /\ string_csv' = str.csv
           ELSE /\ UNCHANGED <<cache, net_log>>
                /\ crashed' = FALSE
                /\ alerts' = <<>>
                /\ G' = NoGraph
                /\ string_csv' = <<>>
        /\ sections' =
             IF ~network THEN <<"Evaluation">>
             ELSE IF crashed' THEN <<"GeneMANIA", "STRING-db">>
             ELSE <<"GeneMANIA", "STRING-db", "GIANT", "Cytoscape + ClueGO",
                    "NetworkX", "Pathway Commons", "Evaluation">>
        /\ df_eval' = IF crashed' THEN NoTable ELSE EvalTable(slider_state')
        /\ eval_csv' = IF crashed' THEN <<>> ELSE EvalCsv(df_eval')

NoOutcome == Raised("Timeout")

\* The session opens: the script runs once with the default widget values.
Init ==
        /\ genes_input = default_genes
        /\ run_networks = FALSE
        /\ slider_state = <<>>
        /\ cache = <<>>
        /\ net_log = <<>>
        /\ crashed = FALSE
        /\ alerts = <<>>
        /\ sections = <<"Evaluation">>
        /\ G = NoGraph
        /\ string_csv = <<>>
        /\ df_eval = EvalTable(<<>>)
        /\ eval_csv = EvalCsv(EvalTable(<<>>))

(***************************************************************************)
(* The user's gestures.  Each one reruns the script.                       *)
(***************************************************************************)
\* The gene text is edited (line 24); the button reads False in that run.
TypeGenes(text) ==
    /\ text # genes_input
    /\ Run(text, FALSE, slider_state, NoOutcome)

\* The run button is pressed (line 26).  The network answers with one of
\* `outcomes` if the run calls it; a run that has to call it is taken only
\* while fewer than `budget` calls have been made.
ClickRun(outcomes, budget) ==
    LET genes == ParseGenes(genes_input)
    IN  IF genes = <<>> \/ CacheKey(genes) \in DOMAIN cache
        THEN Run(genes_input, TRUE, slider_state, NoOutcome)
        ELSE /\ Len(net_log) < budget
             /\ \E o \in outcomes : Run(genes_input, TRUE, slider_state, o)

\* The slider of one cell is moved to v (lines 158-165).  The widget has no
\* position outside min_value..max_value: such a gesture changes nothing.
\* The sliders are on the page only if the run got to line 155.
\* A plausible slip: a number input without bounds instead of the slider.
SliderAcceptsAny(v) == TRUE

\* min_value=1, max_value=5 (lines 160-161)
SliderAccepts(v) == min_value <= v /\ v <= max_value

MoveSlider(tool, crit, v) ==
    /\ ~crashed
    /\ \/ SliderKey(tool, crit) \in DOMAIN slider_state
       \/ Cardinality(DOMAIN slider_state) < MaxEdited
    /\ IF SliderAccepts(v)
       THEN Run(genes_input, FALSE, (SliderKey(tool, crit) :> v) @@ slider_state,
                NoOutcome)
       ELSE UNCHANGED vars

\* The page is rerun with nothing changed (the app menu's "Rerun").
Rerun ==
    /\ TRUE
    /\ Run(genes_input, FALSE, slider_state, NoOutcome)

(***************************************************************************)
(* Inputs and specifications.                                              *)
(***************************************************************************)
Texts == SeqsUpTo(Alphabet, MaxInputLen)
CacheTexts == {<<"A", ",", "B">>, <<"B", ",", "A">>, <<"A">>}

Statuses == {200, 500}
Arrays == SeqsUpTo(Records, MaxRecords)
FetchOutcomes ==
    {Raised("Timeout"), Raised("ConnectionError")} \cup
    {Answered(st, js, <<>>) : st \in Statuses, js \in {"invalid", "object"}} \cup
    {Answered(st, "array", a) : st \in Statuses, a \in Arrays}

OneEdge == <<[preferredName_A |-> "X", preferredName_B |-> "Y", score |-> "0.5"]>>
SmallOutcomes ==
    {Raised("Timeout"), Answered(200, "array", <<>>), Answered(200, "array", OneEdge),
     Answered(500, "object", <<>>)}
TwoOutcomes == {Raised("Timeout"), Answered(200, "array", OneEdge)}
ScoreOutcomes == {Answered(500, "object", <<>>)}

\* The sliders moved in SpecScore: those of one tool, to every position and
\* to the two values next to the ends of the scale.
EditTools == {"STRING-db"}
Gestures == (min_value - 1)..(max_value + 1)

\* The score sliders, with the run button on the default genes and a STRING
\* server that answers with an error document.
NextScore ==
    \/ \E t \in EditTools, c \in Range(criteria), v \in Gestures : MoveSlider(t, c, v)
    \/ ClickRun(ScoreOutcomes, 1)
    \/ Rerun
SpecScore == Init /\ [][NextScore]_vars

\* One fetch for the default genes, every response of up to MaxRecords records.
NextFetch == ClickRun(FetchOutcomes, 1)
SpecFetch == Init /\ [][NextFetch]_vars

\* Every gene text of up to MaxInputLen characters, one fetch.
NextInput ==
    \/ \E text \in Texts : TypeGenes(text)
    \/ ClickRun(TwoOutcomes, 1)
    \/ Rerun
SpecInput == Init /\ [][NextInput]_vars

\* Up to MaxCalls fetches over gene lists that differ in content and order.
NextCache ==
    \/ \E text \in CacheTexts : TypeGenes(text)
    \/ ClickRun(SmallOutcomes, MaxCalls)
    \/ Rerun
SpecCache == Init /\ [][NextCache]_vars

(***************************************************************************)
(* Properties.                                                             *)
(***************************************************************************)
CurGenes == ParseGenes(genes_input)

\* The latest run went through the STRING-db section.
Fetched == run_networks /\ CurGenes # <<>>

\* What query_string_edges returned to the latest run, and its data frame.
CurItems == cache[CacheKey(CurGenes)].value.items
CurFrame == DataFrame(CurItems)

SourceOf(row) == Str(row["preferredName_A"])
TargetOf(row) == Str(row["preferredName_B"])
Swapped(row) ==
    [row EXCEPT !["preferredName_A"] = row["preferredName_B"],
                !["preferredName_B"] = row["preferredName_A"]]
GraphOf(columns, rows) ==
    draw_networkx_graph([columns |-> columns, rows |-> rows],
                        "preferredName_A", "preferredName_B").graph

\* C1: the graph drawn from the rows of a response is the same graph when
\* the rows are permuted, when a row is repeated and when the endpoints of a
\* row are swapped; its nodes are the endpoints of the rows as strings (the
\* string of a missing endpoint is 'nan'), its edges the unordered pairs of
\* the rows, each pair once and in both adjacency lists.
C1_GraphIsOrderAndDirectionFree ==
    G.drawn =>
        LET frame == CurFrame
            cols == frame.columns
            rows == frame.rows
            n == Len(rows)
        IN  /\ G.node = {SourceOf(rows[i]) : i \in 1..n} \cup
                        {TargetOf(rows[i]) : i \in 1..n}
            /\ Edges(G) = {{SourceOf(rows[i]), TargetOf(rows[i])} : i \in 1..n}
            /\ \A i \in 1..n : /\ TargetOf(rows[i]) \in G.adj[SourceOf(rows[i])]
                               /\ SourceOf(rows[i]) \in G.adj[TargetOf(rows[i])]
            /\ \A p \in Permutations(1..n) :
                  GraphOf(cols, [i \in 1..n |-> rows[p[i]]]) = G
            /\ \A i \in 1..n : GraphOf(cols, Append(rows, rows[i])) = G
            /\ \A i \in 1..n : GraphOf(cols, [rows EXCEPT ![i] = Swapped(@)]) = G

\* A response with (X, Y, 0.5) and (Y, X, 0.7) was drawn as one edge.
C1_Witness ==
    /\ G.drawn
    /\ \E i, j \in 1..Len(CurItems) :
          /\ DOMAIN CurItems[i] = Fields /\ DOMAIN CurItems[j] = Fields
          /\ CurItems[i]["preferredName_A"] = "X" /\ CurItems[i]["preferredName_B"] = "Y"
          /\ CurItems[j]["preferredName_A"] = "Y" /\ CurItems[j]["preferredName_B"] = "X"
          /\ CurItems[i]["score"] # CurItems[j]["score"]
    /\ Edges(G) = {{"X", "Y"}}

EdgeHeader == <<"preferredName_A", "preferredName_B">>
FieldOr(r, f, missing) == IF f \in DOMAIN r THEN r[f] ELSE missing
PairOf(r) == {FieldOr(r, "preferredName_A", "nan"), FieldOr(r, "preferredName_B", "nan")}

WellFormed(r) == DOMAIN r = Fields

\* C2 as stated, for the responses whose records all have their three
\* fields: the edge export has the two endpoint columns and one data row per
\* edge of the drawn graph.
C2_OneRowPerEdge ==
    (string_csv # <<>> /\ \A i \in 1..Len(CurItems) : WellFormed(CurItems[i])) =>
        /\ string_csv[1] = EdgeHeader
        /\ Len(string_csv) - 1 = Cardinality(Edges(G))

\* C2 amended: the edge export is offered exactly when a graph is drawn; it
\* has the two endpoint columns in (source, target) order and one data row
\* per record of the response, in the order of the response, repeated pairs
\* included; it has one row per edge when no unordered pair is repeated.
C2_OneRowPerRecord ==
    /\ (string_csv # <<>>) = G.drawn
    /\ string_csv # <<>> =>
        LET items == CurItems
            n == Len(items)
        IN  /\ string_csv[1] = EdgeHeader
            /\ Len(string_csv) = 1 + n
            /\ \A i \in 1..n :
                  string_csv[i + 1] = <<FieldOr(items[i], "preferredName_A", ""),
                                        FieldOr(items[i], "preferredName_B", "")>>
            /\ (\A i, j \in 1..n : i # j => PairOf(items[i]) # PairOf(items[j]))
                  => Len(string_csv) - 1 = Cardinality(Edges(G))

\* The same pair came twice, in both directions, and was exported twice.
C2_Witness ==
    /\ Len(string_csv) = 3
    /\ string_csv[2] = <<"X", "Y">>
    /\ string_csv[3] = <<"Y", "X">>
    /\ Cardinality(Edges(G)) = 1

Blank(text) == \A i \in 1..Len(text) : text[i] \in Whitespace \cup {","}
Trimmed(g) == g # <<>> /\ g[1] \notin Whitespace /\ g[Len(g)] \notin Whitespace

\* C5: a run on a gene text of nothing but whitespace and commas calls no
\* network, leaves the cache alone and draws no graph, whether or not the
\* button was pressed; every gene that was sent to the fetcher is a
\* non-empty trimmed string.
C5_BlankListIsNoOp ==
    /\ [](\A i \in 1..Len(net_log) :
             /\ net_log[i].genes # <<>>
             /\ \A n \in 1..Len(net_log[i].genes) : Trimmed(net_log[i].genes[n]))
    /\ [](\A k \in DOMAIN cache : k # <<>> /\ \A n \in 1..Len(k) : Trimmed(k[n]))
    /\ [](Blank(genes_input) =>
             G = NoGraph /\ string_csv = <<>> /\ alerts = <<>> /\ sections = <<"Evaluation">>)
    /\ [][Blank(genes_input') => net_log' = net_log /\ cache' = cache]_vars

\* The button was pressed on a text of separators, after an earlier fetch.
C5_Witness ==
    /\ run_networks
    /\ Blank(genes_input)
    /\ \E i \in 1..Len(genes_input) : genes_input[i] = ","
    /\ \E i \in 1..Len(genes_input) : genes_input[i] = " "
    /\ Len(net_log) = 1

Failed(outcome) ==
    outcome.kind # "Response" \/ outcome.status < 200 \/ outcome.status > 299

\* C6 as stated: every failed fetch (an exception or a response that is not
\* 2xx) is kept as zero edges with its warning, and the run that made it
\* draws no graph and goes on to the evaluation table.
C6_FailureIsZeroEdges ==
    \A i \in 1..Len(net_log) :
        Failed(net_log[i].outcome) =>
            /\ cache[CacheKey(net_log[i].genes)].value = EmptyList
            /\ cache[CacheKey(net_log[i].genes)].error
            /\ (Fetched /\ CurGenes = net_log[i].genes) =>
                  /\ ~crashed
                  /\ G = NoGraph
                  /\ \E n \in 1..Len(alerts) : alerts[n] = "STRING-db API error"
                  /\ sections[Len(sections)] = "Evaluation"

\* C7 as stated: a record without an endpoint or without the score is
\* dropped; the run goes on, and nodes, edges and exported rows come from
\* the well-formed records alone.
C7_MalformedRecordDropped ==
    (Fetched /\ cache[CacheKey(CurGenes)].value.json = "array") =>
        LET good == SelectSeq(CurItems, WellFormed)
        IN  /\ ~crashed
            /\ G.drawn = (good # <<>>)
            /\ G.node = UNION {{good[i]["preferredName_A"], good[i]["preferredName_B"]} :
                               i \in 1..Len(good)}
            /\ good # <<>> =>
                  string_csv = <<EdgeHeader>> \o
                      [i \in 1..Len(good) |->
                          <<good[i]["preferredName_A"], good[i]["preferredName_B"]>>]

\* The page a run shows for a cached entry.
ShowsEntry(e) ==
    /\ crashed' = StringSection(e).crashed
    /\ alerts' = StringSection(e).alerts
    /\ G' = StringSection(e).graph
    /\ string_csv' = StringSection(e).csv

\* C10: every network call carries all the genes of its list, newline-joined,
\* in one request; each cached list has exactly one call, made for that very
\* list (same genes in the same order), and its entry is what that call
\* gave, the empty list with its error if the call failed; a run on a list
\* already cached makes no call and shows the cached entry; no entry is ever
\* changed or dropped.
C10_CacheKeyedByExactList ==
    /\ [](\A i \in 1..Len(net_log) :
             LET c == net_log[i]
                 json == c.outcome.kind = "Response" /\ c.outcome.json # "invalid"
             IN  /\ c.genes # <<>>
                 /\ c.request = [identifiers |-> JoinLines(c.genes), species |-> 9606]
                 /\ c.genes \in DOMAIN cache
                 /\ cache[c.genes].error = ~json
                 /\ cache[c.genes].value =
                        IF json THEN [json |-> c.outcome.json, items |-> c.outcome.items]
                        ELSE [json |-> "array", items |-> <<>>]
                 /\ \A j \in 1..Len(net_log) : net_log[j].genes = c.genes => j = i)
    /\ [](\A k \in DOMAIN cache : \E i \in 1..Len(net_log) : net_log[i].genes = k)
    /\ [](Fetched => CurGenes \in DOMAIN cache)
    /\ [][\A k \in DOMAIN cache : k \in DOMAIN cache' /\ cache'[k] = cache[k]]_vars
    /\ [][(run_networks' /\ ParseGenes(genes_input') \in DOMAIN cache) =>
              /\ net_log' = net_log
              /\ cache' = cache
              /\ ShowsEntry(cache[ParseGenes(genes_input')])]_vars
    /\ [][(run_networks' /\ ParseGenes(genes_input') # <<>>
             /\ ParseGenes(genes_input') \notin DOMAIN cache) =>
              /\ Len(net_log') = Len(net_log) + 1
              /\ net_log'[Len(net_log')].genes = ParseGenes(genes_input')]_vars

\* The list A,B was fetched first and failed, the list B,A was fetched next
\* and gave an edge, and a later run on A,B shows the failure again.
C10_Witness ==
    /\ Len(net_log) = 2
    /\ net_log[1].genes = <<(<<"A">>), (<<"B">>)>>
    /\ net_log[2].genes = <<(<<"B">>), (<<"A">>)>>
    /\ net_log[1].outcome.kind = "Timeout"
    /\ net_log[2].outcome.items # <<>>
    /\ Fetched
    /\ CurGenes = net_log[1].genes
    /\ alerts = <<"STRING-db API error", "No STRING network returned for given genes.">>
    /\ G = NoGraph

(***************************************************************************)
(* The evaluation table.                                                   *)
(***************************************************************************)
\* The score a cell has now: the last position its slider was moved to in
\* the session, the default if it was never moved.
KeyOf == [t \in Range(tools) |-> [j \in 1..Len(criteria) |-> t \o "-" \o criteria[j]]]

Current(t, j) ==
    IF KeyOf[t][j] \in DOMAIN slider_state
    THEN slider_state[KeyOf[t][j]]
    ELSE default_scores[t][j]

CurrentTotal(t) ==
    Current(t, 1) + Current(t, 2) + Current(t, 3) + Current(t, 4) + Current(t, 5)
        + Current(t, 6) + Current(t, 7)

\* C3: whenever the table is on the page, the total of every tool, displayed
\* and exported, is the sum of its seven current scores; with no slider
\* moved the total of STRING-db is 28.
C3_TotalIsLiveSum ==
    ~crashed =>
        /\ \A i \in 1..Len(tools) :
              /\ df_eval.total[tools[i]] = CurrentTotal(tools[i])
              /\ eval_csv[i + 1][Len(eval_csv[i + 1])] = ToStr(CurrentTotal(tools[i]))
        /\ slider_state = <<>> => df_eval.total["STRING-db"] = 28

\* Two sliders of STRING-db were moved and its total is no longer 28.
C3_Witness ==
    /\ ~crashed
    /\ Cardinality(DOMAIN slider_state) = 2
    /\ df_eval.total["STRING-db"] = 20
    /\ eval_csv[3][9] = "20"

Moved(k) ==
    k \in DOMAIN slider_state' /\ (k \notin DOMAIN slider_state \/ slider_state'[k] # slider_state[k])

\* C4: every cell of the table and every slider of the session is an integer
\* from 1 to 5 in every state, whatever gestures were made, those to 0 and to
\* 6 included; no step moves a slider outside 1..5, and a slider moved to 1
\* or to 5 shows that value in its cell.
C4_ScoresStayInRange ==
    /\ [](~crashed =>
            \A t \in Range(tools), c \in Range(criteria) : df_eval.cell[t][c] \in 1..5)
    /\ [](\A k \in DOMAIN slider_state : slider_state[k] \in 1..5)
    /\ [][\A t \in EditTools, j \in 1..Len(criteria) :
             Moved(KeyOf[t][j]) =>
                /\ slider_state'[KeyOf[t][j]] \in 1..5
                /\ slider_state'[KeyOf[t][j]] \in {1, 5} =>
                      df_eval'.cell[t][criteria[j]] = slider_state'[KeyOf[t][j]]]_vars

\* One cell was moved down to 1 and another up to 5.
C4_Witness ==
    /\ ~crashed
    /\ df_eval.cell["STRING-db"]["Biological Context"] = 1
    /\ df_eval.cell["STRING-db"]["Clinical Explainability"] = 5

\* C8: whenever the export is on the page, its header is the empty index
\* label, the seven criteria in their declared order and "Total Score" last;
\* it has one row per tool in the declared order, and each cell is the
\* current score of that tool and criterion.
C8_ExportIsCurrentState ==
    ~crashed =>
        /\ eval_csv[1] = <<"", "Biological Context", "Network Connectivity",
                           "Clinical Utility", "AI-readiness", "Interoperability",
                           "Clinical Explainability", "Visual Insight", "Total Score">>
        /\ Len(eval_csv) = 7
        /\ \A i \in 1..6 :
              /\ Len(eval_csv[i + 1]) = 9
              /\ eval_csv[i + 1][1] = tools[i]
              /\ \A j \in 1..7 : eval_csv[i + 1][j + 1] = ToStr(Current(tools[i], j))

\* Two sliders of STRING-db were moved and the export shows their positions.
C8_Witness ==
    /\ ~crashed
    /\ slider_state = ("STRING-db-Clinical Utility" :> 1) @@ ("STRING-db-AI-readiness" :> 2)
    /\ eval_csv[3] = <<"STRING-db", "4", "5", "1", "2", "5", "2", "5", "24">>

\* C9: a step moves at most one slider and forgets none; in the table of
\* the run after the step every cell whose slider was not moved has the value
\* it had (its last edited value, or its default), also after a rerun and
\* after a run that crashed before the table.
C9_EditsAreIsolatedAndKept ==
    [][/\ \A k \in DOMAIN slider_state : k \in DOMAIN slider_state'
       /\ Cardinality({k \in DOMAIN slider_state' : Moved(k)}) <= 1
       /\ \A t \in Range(tools), j \in 1..Len(criteria) :
             LET k == KeyOf[t][j]
             IN  /\ (~crashed' /\ ~Moved(k)) => df_eval'.cell[t][criteria[j]] = Current(t, j)
                 /\ (~crashed' /\ ~crashed /\ ~Moved(k)) =>
                        df_eval'.cell[t][criteria[j]] = df_eval.cell[t][criteria[j]]
                 /\ (~crashed' /\ Moved(k)) =>
                        df_eval'.cell[t][criteria[j]] = slider_state'[k]]_vars

\* Two cells are edited, the run before this one crashed, and both edits are
\* back on the page.
C9_Witness ==
    /\ ~crashed
    /\ DOMAIN cache # {}
    /\ Cardinality(DOMAIN slider_state) = 2
    /\ \A t \in Range(tools), j \in 1..Len(criteria) :
          df_eval.cell[t][criteria[j]] = Current(t, j)
    /\ \E j \in 1..Len(criteria) : Current("STRING-db", j) # default_scores["STRING-db"][j]

====
